---- MODULE Spec2Model ----
(***************************************************************************)
(* Bookmark Archiver (archive.py): the link normalisation pipeline         *)
(* (valid_links, uniquefied_links, next_uniq_timestamp) and the control    *)
(* flow of create_archive / dump_website around it.                        *)
(*                                                                         *)
(* Python strings are sequences of one-character strings; they compare by  *)
(* code point (Ord), as str.__lt__ does.  A link dict is a record, and the *)
(* dicts a parser yields live in `heap`, addressed by their position in    *)
(* the export, so that an in-place assignment to link['timestamp'] is      *)
(* visible through every list that holds the dict.                         *)
(***************************************************************************)
EXTENDS Integers, Sequences, FiniteSets, TLC

VARIABLES
    export,     \* the parsed export file: sequence of [url, timestamp], as the parser yields it
    resume,     \* create_archive's resume argument: None or a numeric string
    flags,      \* the FETCH_* / SUBMIT_* settings that are true
    heap,       \* the live link dicts, id -> [url, timestamp]
    links,      \* create_archive's local `links`: a sequence of ids into heap
    pc,         \* where create_archive is
    i,          \* index into links of the link dump_website is working on
    step,       \* the fetch step dump_website calls next
    raised,     \* the exception that ended the run ("none" while running)
    dirs,       \* directories create_archive / dump_website made
    index,      \* index.html as written by dump_index: <<timestamp, url>> rows
    indexed,    \* whether dump_index ran
    fetched,    \* ids dump_website was called on, in call order
    attempts,   \* <<id, step>> of every fetch function that was called
    lastResult, \* how the fetch function called last ended
    applied,    \* how many times the scheme filter was applied (filter specification)
    claimed,    \* next_uniq_timestamp's used_timestamps argument (resolver specification)
    candidate,  \* next_uniq_timestamp's timestamp argument (resolver specification)
    answer      \* what next_uniq_timestamp returned or raised (resolver specification)

vars == <<export, resume, flags, heap, links, pc, i, step, raised, dirs, index,
          indexed, fetched, attempts, lastResult, applied, claimed, candidate, answer>>

(***************************** bounds **************************************)
\* longest export of the normalisation specifications
MaxLinks == 3
\* longest export of the create_archive specification
MaxExport == 2
\* how often the filter specification re-applies valid_links
MaxApply == 2
\* largest nonce among the claimed timestamps of the resolver specification
MaxNonce == 2

(***************************** strings *************************************)
None == "None"

Ord ==
    ("." :> 46) @@ ("0" :> 48) @@ ("1" :> 49) @@ ("2" :> 50) @@ ("3" :> 51) @@
    ("4" :> 52) @@ ("5" :> 53) @@ ("6" :> 54) @@ ("7" :> 55) @@ ("8" :> 56) @@
    ("9" :> 57) @@ (":" :> 58) @@ ("H" :> 72) @@ ("P" :> 80) @@ ("T" :> 84) @@
    ("a" :> 97) @@ ("b" :> 98) @@ ("c" :> 99) @@ ("f" :> 102) @@ ("h" :> 104) @@
        ("e" :> 101) @@ ("m" :> 109) @@ ("o" :> 111) @@ ("p" :> 112) @@ ("r" :> 114) @@
    ("s" :> 115) @@ ("t" :> 116)

Digits == <<"0", "1", "2", "3", "4", "5", "6", "7", "8", "9">>

IsDigit(c) == \E d \in 1..10 : Digits[d] = c

DigitValue(c) == (CHOOSE d \in 1..10 : Digits[d] = c) - 1

\* str < str: lexicographic by code point, a proper prefix is smaller
RECURSIVE StrLess(_, _)
StrLess(a, b) ==
    IF b = <<>> THEN FALSE
    ELSE IF a = <<>> THEN TRUE
    ELSE IF Ord[Head(a)] < Ord[Head(b)] THEN TRUE
    ELSE IF Ord[Head(a)] > Ord[Head(b)] THEN FALSE
    ELSE StrLess(Tail(a), Tail(b))

\* str.startswith(prefix)
StartsWith(s, prefix) ==
    Len(s) >= Len(prefix) /\ SubSeq(s, 1, Len(prefix)) = prefix

\* str.split('.'): the pieces between the dots
RECURSIVE SplitDot(_)
SplitDot(s) ==
    IF \A k \in 1..Len(s) : s[k] # "." THEN <<s>>
    ELSE LET d == CHOOSE k \in 1..Len(s) : s[k] = "." /\ \A j \in 1..(k-1) : s[j] # "."
         IN <<SubSeq(s, 1, d - 1)>> \o SplitDot(SubSeq(s, d + 1, Len(s)))

\* int(str) on a string of decimal digits
RECURSIVE ParseInt(_)
ParseInt(s) ==
    IF s = <<>> THEN 0
    ELSE 10 * ParseInt(SubSeq(s, 1, Len(s) - 1)) + DigitValue(s[Len(s)])

\* whether int(str) accepts the string (digits only, modelled inputs carry no sign or space)
IsIntLiteral(s) == s # <<>> /\ \A k \in 1..Len(s) : IsDigit(s[k])

\* '{}'.format(n) for n >= 0
RECURSIVE FormatInt(_)
FormatInt(n) ==
    IF n < 10 THEN <<Digits[n + 1]>>
    ELSE FormatInt(n \div 10) \o <<Digits[(n % 10) + 1]>>

\* '{}.{}'.format(timestamp, nonce)
FormatTimestamp(timestamp, nonce) == timestamp \o <<".">> \o FormatInt(nonce)

(***************************** float() *************************************)
\* whether float(str) accepts the string: digits with at most one dot
IsFloatLiteral(s) ==
    LET parts == SplitDot(s)
    IN /\ Len(parts) <= 2
       /\ \A k \in 1..Len(parts) : \A j \in 1..Len(parts[k]) : IsDigit(parts[k][j])
       /\ \E k \in 1..Len(parts) : parts[k] # <<>>

FracDigits(s) == IF Len(SplitDot(s)) = 2 THEN SplitDot(s)[2] ELSE <<>>

\* the value of float(s) times 10^k, for k >= the number of fraction digits of s
Scaled(s, k) ==
    LET pad == [j \in 1..(k - Len(FracDigits(s))) |-> "0"]
    IN ParseInt(SplitDot(s)[1] \o FracDigits(s) \o pad)

\* float(a) >= float(b)
FloatGE(a, b) ==
    LET k == IF Len(FracDigits(a)) >= Len(FracDigits(b))
             THEN Len(FracDigits(a)) ELSE Len(FracDigits(b))
    IN Scaled(a, k) >= Scaled(b, k)

(************************ next_uniq_timestamp ******************************)
Returned(v) == [raised |-> "none", value |-> v]
Raised(e) == [raised |-> e, value |-> <<>>]

\* the while loop: the first base.n, n = nonce, nonce + 1, ..., not in used_timestamps
RECURSIVE FirstUnused(_, _, _)
FirstUnused(used_timestamps, timestamp, nonce) ==
    IF FormatTimestamp(timestamp, nonce) \in used_timestamps
    THEN FirstUnused(used_timestamps, timestamp, nonce + 1)
    ELSE FormatTimestamp(timestamp, nonce)

\* variant with a slip: the first nonce tried is 0
FirstNonce_Zero == 1 - 1

\* where the search for a free nonce starts on a dot-free timestamp
FirstNonce == 1

next_uniq_timestamp(used_timestamps, timestamp) ==
    IF timestamp \notin used_timestamps THEN Returned(timestamp)
    ELSE IF \E k \in 1..Len(timestamp) : timestamp[k] = "."
    THEN LET parts == SplitDot(timestamp)
         IN IF Len(parts) # 2 THEN Raised("ValueError")          \* unpacking into two names
            ELSE IF ~IsIntLiteral(parts[2]) THEN Raised("ValueError")   \* int(nonce)
            ELSE Returned(FirstUnused(used_timestamps, parts[1], ParseInt(parts[2])))
    ELSE Returned(FirstUnused(used_timestamps, timestamp, FirstNonce))

(**************************** valid_links **********************************)
HTTP == <<"h", "t", "t", "p">>
FTP == <<"f", "t", "p">>

\* variant with a slip: the ftp alternative forgotten
IsValidUrl_HttpOnly(url) == StartsWith(url, HTTP)

\* the condition of the generator expression
IsValidUrl(url) == StartsWith(url, HTTP) \/ StartsWith(url, FTP)

\* (link for link in links if ...): ls is a sequence of ids into h
valid_links(ls, h) ==
    LET Test(id) == IsValidUrl(h[id].url)
    IN SelectSeq(ls, Test)

(************************** uniquefied_links *******************************)
\* (l['timestamp'], l['url']) < (m['timestamp'], m['url'])
KeyLess(a, b) ==
    \/ StrLess(a.timestamp, b.timestamp)
    \/ a.timestamp = b.timestamp /\ StrLess(a.url, b.url)

\* sorted(links, key=...): stable, ascending
RECURSIVE SortedByKey(_, _)
SortedByKey(ls, h) ==
    IF ls = <<>> THEN <<>>
    ELSE LET done == SortedByKey(SubSeq(ls, 1, Len(ls) - 1), h)
             x == ls[Len(ls)]
             n == Cardinality({k \in 1..Len(done) : ~KeyLess(h[x], h[done[k]])})
         IN SubSeq(done, 1, n) \o <<x>> \o SubSeq(done, n + 1, Len(done))

Reversed(s) == [k \in 1..Len(s) |-> s[Len(s) + 1 - k]]

\* variant with a slip: reversed() forgotten
SortedLinks_Ascending(ls, h) == SortedByKey(ls, h)

\* list(reversed(sorted(links, key=lambda l: (l['timestamp'], l['url']))))
SortedLinks(ls, h) == Reversed(SortedByKey(ls, h))

\* variant with a slip: the url compared with the claiming dict itself, which is never equal
SameLink_UrlAgainstDict(url, claimed_url) == FALSE

\* link['url'] == seen_timestamps[t]['url']
SameLink(url, claimed_url) == url = claimed_url

\* the for loop, from position k on; seen is seen_timestamps, timestamp -> id
RECURSIVE Walk(_, _, _, _)
Walk(k, ls, h, seen) ==
    IF k > Len(ls) THEN [raised |-> "none", links |-> ls, heap |-> h, seen |-> seen]
    ELSE LET link == ls[k]
             t == h[link].timestamp
         IN IF t \in DOMAIN seen
            THEN IF SameLink(h[link].url, h[seen[t]].url)
                 THEN Walk(k + 1, ls, h, seen)                       \* continue
                 ELSE LET r == next_uniq_timestamp(DOMAIN seen, t)
                      IN IF r.raised # "none"
                         THEN [raised |-> r.raised, links |-> <<>>, heap |-> h, seen |-> seen]
                         ELSE Walk(k + 1, ls,
                                   [h EXCEPT ![link].timestamp = r.value],
                                   (r.value :> link) @@ seen)
            ELSE Walk(k + 1, ls, h, (t :> link) @@ seen)

\* an empty dict
EmptyDict == [t \in {} |-> 0]

uniquefied_links(ls, h) == Walk(1, SortedLinks(ls, h), h, EmptyDict)

\* variant with a slip: the two calls in the other order
NormalizedLinks_FilterLast(ls, h) ==
    LET r == uniquefied_links(ls, h)
    IN [r EXCEPT !.links = valid_links(r.links, r.heap)]

\* create_archive's two calls: valid_links, then uniquefied_links
NormalizedLinks(ls, h) == uniquefied_links(valid_links(ls, h), h)

(***************************** resume filter *******************************)
\* variant with a slip: the timestamps compared as strings, without float()
ResumeKeeps_AsStrings(timestamp, r) == ~StrLess(timestamp, r)

\* the comparison of the list comprehension
ResumeKeeps(timestamp, r) == FloatGE(timestamp, r)

\* [link for link in links if float(link['timestamp']) >= float(resume)]
ResumeFiltered(ls, h, r) ==
    LET Test(id) == ResumeKeeps(h[id].timestamp, r)
    IN SelectSeq(ls, Test)

\* float() raises ValueError on a string that is no number; only TypeError is caught
ResumeRaises(ls, h, r) ==
    ls # <<>> /\ (~IsFloatLiteral(r) \/ \E k \in 1..Len(ls) : ~IsFloatLiteral(h[ls[k]].timestamp))

(****************************** inputs *************************************)
T9 == <<"9">>
T10 == <<"1", "0">>
T10_1 == <<"1", "0", ".", "1">>

HttpA == <<"h", "t", "t", "p", ":", "a">>
HttpB == <<"h", "t", "t", "p", ":", "b">>
HttpsA == <<"h", "t", "t", "p", "s", ":", "a">>
FtpC == <<"f", "t", "p", ":", "c">>
ChromeS == <<"c", "h", "r", "o", "m", "e", ":", "s">>
UpperHttpA == <<"H", "T", "T", "P", ":", "a">>
SshA == <<"s", "s", "h", ":", "a">>

\* what the three parsers yield: the timestamp is the text a (\d+) group matched
ParserLinks == [url : {HttpA, HttpB, FtpC, ChromeS}, timestamp : {T9, T10}]

\* arguments of uniquefied_links / valid_links called on their own
AnyLinks == [url : {HttpA, HttpsA, FtpC, ChromeS, UpperHttpA, SshA}, timestamp : {T9, T10, T10_1}]

SeqsUpTo(S, n) == UNION {[1..m -> S] : m \in 0..n}

Ids(e) == [k \in 1..Len(e) |-> k]

\* sys.argv[3], when given, is a number
Resumes == {None, T10, T10_1}

(*************************** fetch functions *******************************)
StepOrder == <<"wget", "pdf", "screenshot", "archive_dot_org", "favicon">>

\* the settings the runs are drawn from
FlagSets == {{"wget", "pdf", "screenshot", "archive_dot_org", "favicon"},
             {"wget", "archive_dot_org"},
             {"pdf", "screenshot", "favicon"},
             {}}

\* what the world can answer to one fetch function:
\*   exists       the output is already there (or the link's type is PDF/image)
\*   ok           the command and the chmod succeed
\*   nonzero      the command ends with a non-zero status
\*   timeout      the command runs into TIMEOUT
\*   missing      the command ends with status 0 and leaves no output (no file; for
\*                archive.org no Content-Location header)
\*   chmod_failed the output is there and chmod_file's chmod ends with status 1
Outcomes == {"exists", "ok", "nonzero", "timeout", "missing", "chmod_failed"}

\* each function maps the outcome to: skipped | ok | logged (except Exception printed
\* "Failed:") | uncaught (the exception left the function)
fetch_wget(outcome) ==
    IF outcome = "exists" THEN "skipped"
    ELSE IF outcome = "ok" THEN "ok"
    ELSE "logged"

fetch_pdf(outcome) ==
    IF outcome = "exists" THEN "skipped"
    ELSE IF outcome = "ok" THEN "ok"
    ELSE "logged"

fetch_screenshot(outcome) ==
    IF outcome = "exists" THEN "skipped"
    ELSE IF outcome = "ok" THEN "ok"
    ELSE "logged"

\* curl's status is not read: without a Content-Location header the try block raises;
\* with one, archive.org.txt is written and chmod_file is called after the try block
archive_dot_org(outcome) ==
    IF outcome = "exists" THEN "skipped"
    ELSE IF outcome = "ok" THEN "ok"
    ELSE IF outcome \in {"nonzero", "timeout", "missing"} THEN "logged"
    ELSE "uncaught"

\* favicon.ico is opened for writing before curl runs, and curl's status is not read
fetch_favicon(outcome) ==
    IF outcome = "exists" THEN "skipped"
    ELSE IF outcome \in {"ok", "nonzero", "missing"} THEN "ok"
    ELSE "logged"

\* position in StepOrder of the first enabled step after position k, 0 when there is none
NextEnabled(k, fl) ==
    IF \E j \in (k + 1)..Len(StepOrder) : StepOrder[j] \in fl
    THEN CHOOSE j \in (k + 1)..Len(StepOrder) :
            /\ StepOrder[j] \in fl
            /\ \A m \in (k + 1)..(j - 1) : StepOrder[m] \notin fl
    ELSE 0

(***************************** create_archive ******************************)
\* variant with a slip: `if links is None`, which a list never is
NoLinksFound_IsNone(ls) == FALSE

\* `if not links`
NoLinksFound(ls) == ls = <<>>

\* the rows dump_index renders, one per link
IndexRows(ls, h) == [k \in 1..Len(ls) |-> <<h[ls[k]].timestamp, h[ls[k]].url>>]

\* check_dependencies can find a binary missing only when a setting asks for it
DependenciesNeeded(fl) == fl # {}

InitWith(S, n, rs, fls, start) ==
    /\ export \in SeqsUpTo(S, n)
    /\ resume \in rs
    /\ flags \in fls
    /\ heap = export
    /\ links = Ids(export)
    /\ pc = start
    /\ i = 0
    /\ step = 0
    /\ raised = "none"
    /\ dirs = {}
    /\ index = <<>>
    /\ indexed = FALSE
    /\ fetched = <<>>
    /\ attempts = {}
    /\ lastResult = "none"
    /\ applied = 0
    /\ claimed = {}
    /\ candidate = <<>>
    /\ answer = Returned(<<>>)

Init == InitWith(ParserLinks, MaxExport, Resumes, FlagSets, "normalize")

\* links = valid_links(links); links = uniquefied_links(links)
Normalize ==
    /\ pc = "normalize"
    /\ LET r == NormalizedLinks(links, heap)
       IN /\ heap' = r.heap
          /\ IF r.raised = "none"
             THEN links' = r.links /\ pc' = "resume" /\ raised' = raised
             ELSE links' = links /\ pc' = "raised" /\ raised' = r.raised
    /\ UNCHANGED <<claimed, candidate, answer, export, resume, flags, i, step, dirs, index, indexed, fetched,
                   attempts, lastResult, applied>>

\* if resume: links = [link for link in links if float(...) >= float(resume)]
ResumeFilter ==
    /\ pc = "resume"
    /\ IF resume = None
       THEN links' = links /\ pc' = "check" /\ raised' = raised
       ELSE IF ResumeRaises(links, heap, resume)
       THEN links' = links /\ pc' = "raised" /\ raised' = "ValueError"
       ELSE links' = ResumeFiltered(links, heap, resume) /\ pc' = "check" /\ raised' = raised
    /\ UNCHANGED <<claimed, candidate, answer, export, resume, flags, heap, i, step, dirs, index, indexed, fetched,
                   attempts, lastResult, applied>>

\* if not links: print('[X] No links found ...'); raise SystemExit(1)
NoLinks ==
    /\ pc = "check"
    /\ NoLinksFound(links)
    /\ pc' = "exit_no_links"
    /\ raised' = "SystemExit(1)"
    /\ UNCHANGED <<claimed, candidate, answer, export, resume, flags, heap, links, i, step, dirs, index, indexed,
                   fetched, attempts, lastResult, applied>>

\* os.makedirs(service); os.makedirs(service + '/archive')
MakeDirs ==
    /\ pc = "check"
    /\ ~NoLinksFound(links)
    /\ dirs' = dirs \cup {<<"service">>, <<"service", "archive">>}
    /\ pc' = "index"
    /\ UNCHANGED <<claimed, candidate, answer, export, resume, flags, heap, links, i, step, raised, index, indexed,
                   fetched, attempts, lastResult, applied>>

\* dump_index(links, service), the chmod -R and the "Created archive index" message
DumpIndex ==
    /\ pc = "index"
    /\ index' = IndexRows(links, heap)
    /\ indexed' = TRUE
    /\ pc' = "deps"
    /\ UNCHANGED <<claimed, candidate, answer, export, resume, flags, heap, links, i, step, raised, dirs, fetched,
                   attempts, lastResult, applied>>

\* check_dependencies() finds every binary it looks for
DependenciesFound ==
    /\ pc = "deps"
    /\ pc' = "loop"
    /\ i' = 1
    /\ UNCHANGED <<claimed, candidate, answer, export, resume, flags, heap, links, step, raised, dirs, index, indexed,
                   fetched, attempts, lastResult, applied>>

\* check_dependencies() raises SystemExit(1)
DependencyMissing ==
    /\ pc = "deps"
    /\ DependenciesNeeded(flags)
    /\ pc' = "exit_missing_dependency"
    /\ raised' = "SystemExit(1)"
    /\ UNCHANGED <<claimed, candidate, answer, export, resume, flags, heap, links, i, step, dirs, index, indexed,
                   fetched, attempts, lastResult, applied>>

\* dump_website up to its first fetch function: the output directory, the scheme check
DumpWebsite ==
    /\ pc = "loop"
    /\ i <= Len(links)
    /\ fetched' = Append(fetched, links[i])
    /\ dirs' = dirs \cup {<<"service", "archive", heap[links[i]].timestamp>>}
    /\ IF IsValidUrl(heap[links[i]].url) /\ NextEnabled(0, flags) # 0
       THEN pc' = "fetch" /\ step' = NextEnabled(0, flags) /\ i' = i
       ELSE pc' = "loop" /\ step' = 0 /\ i' = i + 1
    /\ UNCHANGED <<claimed, candidate, answer, export, resume, flags, heap, links, raised, index, indexed,
                   attempts, lastResult, applied>>

\* what dump_website does with the way a fetch function ended: an exception that
\* left the function ends the run, anything else leads to the next enabled call
Called(name, result) ==
    /\ attempts' = attempts \cup {<<links[i], name>>}
    /\ lastResult' = result
    /\ IF result = "uncaught"
       THEN pc' = "raised" /\ raised' = "Exception" /\ step' = step /\ i' = i
       ELSE /\ raised' = raised
            /\ IF NextEnabled(step, flags) # 0
               THEN pc' = "fetch" /\ step' = NextEnabled(step, flags) /\ i' = i
               ELSE pc' = "loop" /\ step' = 0 /\ i' = i + 1
    /\ UNCHANGED <<claimed, candidate, answer, export, resume, flags, heap, links, dirs, index, indexed, fetched, applied>>

FetchWget ==
    /\ pc = "fetch"
    /\ StepOrder[step] = "wget"
    /\ \E o \in Outcomes : Called("wget", fetch_wget(o))

FetchPdf ==
    /\ pc = "fetch"
    /\ StepOrder[step] = "pdf"
    /\ \E o \in Outcomes : Called("pdf", fetch_pdf(o))

FetchScreenshot ==
    /\ pc = "fetch"
    /\ StepOrder[step] = "screenshot"
    /\ \E o \in Outcomes : Called("screenshot", fetch_screenshot(o))

ArchiveDotOrg ==
    /\ pc = "fetch"
    /\ StepOrder[step] = "archive_dot_org"
    /\ \E o \in Outcomes : Called("archive_dot_org", archive_dot_org(o))

FetchFavicon ==
    /\ pc = "fetch"
    /\ StepOrder[step] = "favicon"
    /\ \E o \in Outcomes : Called("favicon", fetch_favicon(o))

\* the for loop is over: print('Archive update complete.')
Complete ==
    /\ pc = "loop"
    /\ i > Len(links)
    /\ pc' = "done"
    /\ UNCHANGED <<claimed, candidate, answer, export, resume, flags, heap, links, i, step, raised, dirs, index,
                   indexed, fetched, attempts, lastResult, applied>>

Next ==
    \/ Normalize
    \/ ResumeFilter
    \/ NoLinks
    \/ MakeDirs
    \/ DumpIndex
    \/ DependenciesFound
    \/ DependencyMissing
    \/ DumpWebsite
    \/ FetchWget
    \/ FetchPdf
    \/ FetchScreenshot
    \/ ArchiveDotOrg
    \/ FetchFavicon
    \/ Complete

Spec == Init /\ [][Next]_vars

(******************** the normaliser called on its own *********************)
InitNormalize == InitWith(AnyLinks, MaxLinks, {None}, {{}}, "normalize")

SpecNormalize == InitNormalize /\ [][Normalize]_vars

(******************** the scheme filter called on its own ******************)
InitFilter == InitWith(AnyLinks, MaxLinks, {None}, {{}}, "filter")

\* links = valid_links(links), once more
ApplyValidLinks ==
    /\ pc = "filter"
    /\ applied < MaxApply
    /\ links' = valid_links(links, heap)
    /\ applied' = applied + 1
    /\ UNCHANGED <<claimed, candidate, answer, export, resume, flags, heap, pc, i, step, raised, dirs, index,
                   indexed, fetched, attempts, lastResult>>

SpecFilter == InitFilter /\ [][ApplyValidLinks]_vars

(********************* the nonce resolver called on its own ****************)
T10_01 == <<"1", "0", ".", "0", "1">>
T10_1_1 == <<"1", "0", ".", "1", ".", "1">>

\* timestamps a seen_timestamps dict can hold: parsed ones, renumbered ones, one whose
\* nonce is written with a leading zero and one with two dots
ClaimableTimestamps ==
    {T9, T10, T10_01, T10_1_1}
        \cup {FormatTimestamp(b, n) : b \in {T9, T10}, n \in 1..MaxNonce}

\* the resolver is called on a timestamp that is in seen_timestamps
InitNonce ==
    /\ export = <<>>
    /\ resume = None
    /\ flags = {}
    /\ heap = <<>>
    /\ links = <<>>
    /\ pc = "resolve"
    /\ i = 0
    /\ step = 0
    /\ raised = "none"
    /\ dirs = {}
    /\ index = <<>>
    /\ indexed = FALSE
    /\ fetched = <<>>
    /\ attempts = {}
    /\ lastResult = "none"
    /\ applied = 0
    /\ claimed \in SUBSET ClaimableTimestamps
    /\ candidate \in claimed
    /\ answer = Returned(<<>>)

\* next_uniq_timestamp(seen_timestamps, link['timestamp'])
CallNextUniqTimestamp ==
    /\ pc \in {"resolve", "resolved"}
    /\ answer' = next_uniq_timestamp(claimed, candidate)
    /\ pc' = IF answer'.raised = "none" THEN "resolved" ELSE "raised"
    /\ raised' = answer'.raised
    /\ UNCHANGED <<claimed, candidate, export, resume, flags, heap, links, i, step, dirs,
                   index, indexed, fetched, attempts, lastResult, applied>>

SpecNonce == InitNonce /\ [][CallNextUniqTimestamp]_vars

(***************************************************************************)
(*                              properties                                 *)
(***************************************************************************)
\* uniquefied_links has just returned into create_archive's `links`
JustNormalized == pc = "resume"

\* the url begins with the letters h,t,t,p or f,t,p, in lower case
HasArchivableScheme(url) ==
    \/ Len(url) >= 4 /\ url[1] = "h" /\ url[2] = "t" /\ url[3] = "t" /\ url[4] = "p"
    \/ Len(url) >= 3 /\ url[1] = "f" /\ url[2] = "t" /\ url[3] = "p"

InOutput(id) == \E k \in 1..Len(links) : links[k] = id

HasDot(t) == \E k \in 1..Len(t) : t[k] = "."

\* C1: after valid_links and uniquefied_links, no two links of the returned
\* sequence have the same timestamp.
C1_UniqueTimestamps ==
    JustNormalized =>
        \A a, b \in 1..Len(links) :
            a # b => heap[links[a]].timestamp # heap[links[b]].timestamp

\* C2: two raw links with the same original timestamp and the same url leave
\* exactly one link with that url from that timestamp in the returned sequence.
C2_DuplicatesCollapse ==
    JustNormalized =>
        \A a, b \in DOMAIN export :
            (a < b /\ export[a] = export[b] /\ HasArchivableScheme(export[a].url))
            => Cardinality({k \in 1..Len(links) : export[links[k]] = export[a]}) = 1

\* C3: k >= 2 valid links sharing a dot-free timestamp T, with pairwise distinct
\* urls and no other input link at T or T.n, are all retained; the largest url
\* keeps T and the others, in descending url order, get T.1, T.2, ..., T.(k-1).
C3_Group(T) == {k \in DOMAIN export : export[k].timestamp = T}

C3_Applies(T) ==
    /\ ~HasDot(T)
    /\ Cardinality(C3_Group(T)) >= 2
    /\ \A k \in C3_Group(T) : HasArchivableScheme(export[k].url)
    /\ \A a, b \in C3_Group(T) : a # b => export[a].url # export[b].url
    /\ \A k \in DOMAIN export : ~StartsWith(export[k].timestamp, T \o <<".">>)

C3_ChainedCollision ==
    JustNormalized =>
        \A T \in {export[k].timestamp : k \in DOMAIN export} :
            C3_Applies(T) =>
                \A g \in C3_Group(T) :
                    LET rank == Cardinality({m \in C3_Group(T) :
                                                StrLess(export[g].url, export[m].url)})
                    IN /\ InOutput(g)
                       /\ rank = 0 => heap[g].timestamp = T
                       /\ rank = 1 => heap[g].timestamp = T \o <<".", "1">>
                       /\ rank = 2 => heap[g].timestamp = T \o <<".", "2">>
                       /\ rank = 3 => heap[g].timestamp = T \o <<".", "3">>

C3_Witness ==
    /\ JustNormalized
    /\ \E T \in {export[k].timestamp : k \in DOMAIN export} :
          C3_Applies(T) /\ Cardinality(C3_Group(T)) = 3

\* C4: the returned sequence, read with the final timestamps, is in descending
\* (timestamp, url) string order: no link's key is below its successor's.
C4_SortedDescending ==
    JustNormalized =>
        \A k \in 1..(Len(links) - 1) : ~KeyLess(heap[links[k]], heap[links[k + 1]])

\* C5: a link whose url starts with neither http nor ftp is not in the output
\* and does not influence it: the sequence and the timestamps are those of the
\* run on the input without such links, and a valid link that alone among the
\* valid links has a dot-free timestamp keeps it.
C5_Kept == LET Test(id) == HasArchivableScheme(export[id].url)
           IN SelectSeq(Ids(export), Test)

C5_RejectedNeverInfluence ==
    JustNormalized =>
        LET r == uniquefied_links(C5_Kept, export)
        IN /\ links = r.links
           /\ \A k \in 1..Len(links) : heap[links[k]] = r.heap[links[k]]
           /\ \A k \in 1..Len(links) : HasArchivableScheme(heap[links[k]].url)
           /\ \A id \in DOMAIN export :
                ~HasArchivableScheme(export[id].url) => ~InOutput(id) /\ heap[id] = export[id]
           /\ \A id \in DOMAIN export :
                (/\ HasArchivableScheme(export[id].url)
                 /\ ~HasDot(export[id].timestamp)
                 /\ \A o \in DOMAIN export :
                        (o # id /\ HasArchivableScheme(export[o].url))
                        => export[o].timestamp # export[id].timestamp)
                => heap[id].timestamp = export[id].timestamp

C5_Witness ==
    /\ JustNormalized
    /\ \E a, b \in DOMAIN export :
          /\ ~HasArchivableScheme(export[a].url)
          /\ HasArchivableScheme(export[b].url)
          /\ export[a].timestamp = export[b].timestamp
          /\ StrLess(export[b].url, export[a].url)
          /\ InOutput(b)
          /\ heap[b].timestamp = export[b].timestamp

\* C9 as stated: after uniquefied_links returns, every raw link record has the
\* field values it had before the call.
C9_NoSideEffects == JustNormalized => heap = export

\* C9 amended: no url changes, and a record's timestamp changes only when the
\* link was renumbered, that is when another returned link with a different url
\* holds the record's original timestamp.
C9_OnlyRenumberedTimestampsChange ==
    JustNormalized =>
        /\ DOMAIN heap = DOMAIN export
        /\ \A id \in DOMAIN export :
              /\ heap[id].url = export[id].url
              /\ heap[id].timestamp # export[id].timestamp =>
                    /\ InOutput(id)
                    /\ \E c \in DOMAIN export :
                          /\ c # id
                          /\ InOutput(c)
                          /\ heap[c].timestamp = export[id].timestamp
                          /\ heap[c].url # heap[id].url

C9_Witness ==
    /\ JustNormalized
    /\ \E id \in DOMAIN export : heap[id].timestamp # export[id].timestamp

\* C6: when no raw link survives the scheme filter, uniquefied_links returns
\* the empty sequence without raising and create_archive ends with exit status 1
\* before it makes a directory, writes the index or calls a fetch function.
C6_NothingCreated ==
    /\ dirs = {}
    /\ ~indexed
    /\ index = <<>>
    /\ fetched = <<>>
    /\ attempts = {}

C6_EmptyExitsBeforeSideEffects ==
    /\ (pc # "normalize" /\ \A k \in DOMAIN export : ~HasArchivableScheme(export[k].url))
       => /\ links = <<>>
          /\ raised \in {"none", "SystemExit(1)"}
          /\ pc \in {"resume", "check", "exit_no_links"}
          /\ C6_NothingCreated
    /\ (pc = "check" /\ links = <<>>) => (ENABLED NoLinks /\ ~ENABLED MakeDirs)
    /\ pc = "exit_no_links" => (links = <<>> /\ raised = "SystemExit(1)" /\ C6_NothingCreated)

C6_Witness ==
    /\ pc = "exit_no_links"
    /\ export # <<>>
    /\ \A k \in DOMAIN export : ~HasArchivableScheme(export[k].url)

\* C7: a failure of any single fetch step is logged and does not abort the
\* batch: no exception leaves a fetch function, and a run that reaches its
\* completion message has called every enabled fetch function on every link.
C7_FetchFailureNeverAborts ==
    /\ lastResult # "uncaught"
    /\ ~(pc = "raised" /\ raised = "Exception")
    /\ pc = "done" =>
          attempts = {<<links[k], StepOrder[j]>> :
                        k \in 1..Len(links), j \in {m \in 1..Len(StepOrder) : StepOrder[m] \in flags}}

\* C8: with a resume threshold R, the links create_archive indexes and fetches
\* are the links of the normalized sequence whose final timestamp is
\* numerically >= R, in normalized order, each with the timestamp the
\* normalisation of the whole export gives it.
C8_PastResume == pc \notin {"normalize", "resume", "filter"} /\ raised # "ValueError"

C8_Normal == uniquefied_links(valid_links(Ids(export), export), export)

C8_Retained ==
    LET Test(id) == FloatGE(C8_Normal.heap[id].timestamp, resume)
    IN SelectSeq(C8_Normal.links, Test)

C8_ResumeAfterNormalization ==
    (resume # None /\ C8_PastResume) =>
        /\ links = C8_Retained
        /\ heap = C8_Normal.heap
        /\ indexed => index = [k \in 1..Len(links) |->
                                 <<C8_Normal.heap[links[k]].timestamp, export[links[k]].url>>]
        /\ Len(fetched) <= Len(links)
        /\ fetched = SubSeq(links, 1, Len(fetched))
        /\ pc = "done" => fetched = links

C8_Witness ==
    /\ resume # None
    /\ pc = "done"
    /\ links # <<>>
    /\ Len(links) < Len(C8_Normal.links)
    /\ \E k \in 1..Len(links) : heap[links[k]].timestamp # export[links[k]].timestamp

\* C10: the scheme filter keeps exactly the links whose url starts with http or
\* ftp (in lower case), in their input order, and a second application changes
\* nothing.
C10_FilterIdempotentOrderPreserving ==
    applied >= 1 =>
        /\ \A k \in 1..(Len(links) - 1) : links[k] < links[k + 1]
        /\ {links[k] : k \in 1..Len(links)}
             = {id \in DOMAIN export : HasArchivableScheme(export[id].url)}
        /\ heap = export

C10_Witness ==
    /\ applied = 2
    /\ Len(links) >= 2
    /\ \E k \in DOMAIN export : export[k].url = UpperHttpA
    /\ \E k \in DOMAIN export : export[k].url = FtpC /\ InOutput(k)

\* next_uniq_timestamp was called on candidate, a member of claimed
Resolved == pc \in {"resolved", "raised"} /\ candidate \in claimed

DotCount(t) == Cardinality({k \in 1..Len(t) : t[k] = "."})

\* the text before the first dot
BaseOf(t) ==
    IF HasDot(t)
    THEN SubSeq(t, 1, (CHOOSE k \in 1..Len(t) : t[k] = "." /\ \A j \in 1..(k - 1) : t[j] # ".") - 1)
    ELSE t

\* the number written after the only dot of t
NonceOf(t) == ParseInt(SubSeq(t, Len(BaseOf(t)) + 2, Len(t)))

\* C11: on a claimed timestamp t with at most one dot, next_uniq_timestamp
\* returns base.m, where base is t without its nonce and m is the least integer
\* >= start (1 for a dot-free t, t's nonce otherwise) with base.m unclaimed; the
\* result is not claimed.
C11_Start == IF HasDot(candidate) THEN NonceOf(candidate) ELSE 1

C11_SmallestUnusedNonce ==
    (Resolved /\ DotCount(candidate) <= 1) =>
        /\ answer.raised = "none"
        /\ answer.value \notin claimed
        /\ \E m \in C11_Start..(C11_Start + Cardinality(claimed)) :
              /\ answer.value = BaseOf(candidate) \o <<".">> \o FormatInt(m)
              /\ \A j \in C11_Start..(m - 1) :
                    (BaseOf(candidate) \o <<".">> \o FormatInt(j)) \in claimed

C11_Witness ==
    /\ Resolved
    /\ candidate = T10_01
    /\ answer.value = <<"1", "0", ".", "3">>

\* C12: on a claimed timestamp with more than one dot, next_uniq_timestamp
\* raises no error and returns an unclaimed base.n, base being the text before
\* the first dot.
C12_MultiDotResolved ==
    (Resolved /\ DotCount(candidate) > 1) =>
        /\ answer.raised = "none"
        /\ answer.value \notin claimed
        /\ \E n \in 1..(Cardinality(claimed) + 1) :
              answer.value = BaseOf(candidate) \o <<".">> \o FormatInt(n)

====
